---- MODULE Spec2Model ----
(***************************************************************************)
(* State-machine model of streamlit_app.py: the Streamlit script main()    *)
(* re-executed once per user interaction, the per-session                  *)
(* st.session_state it reads and writes, and the in-process vector store   *)
(* (Chroma collections addressed by name) it builds, queries and deletes.  *)
(*                                                                         *)
(* One script run is a sequence of steps (pc) so that the states between   *)
(* the build, the reload button and the chat turn are visible, and so that *)
(* runs of different sessions interleave at the blocking calls.            *)
(***************************************************************************)
EXTENDS Integers, Sequences, FiniteSets, TLC

\* ------------------------------------------------------------------ bounds
MaxMsgs == 3        \* transcript entries a session may hold
MaxRows == 5        \* rows the collection may hold before builds stop

\* ------------------------------------------------------- the environment
Sessions == {"s1", "s2"}
Questions == {"q1"}
Responses == {"r1"}

\* ollama.list() results: nothing installed, or two models.
ModelListings ==
    { <<>>, << [name |-> "m1"], [name |-> "m2"] >> }

\* os.listdir(korpora_path): no corpus directory, or three of them.
KorporaListings == { <<>>, << "kA", "kB", "kC" >> }

korpora_path == "/data/ub-llm/korpora/"

\* The markdown files under each corpus directory, each file given as the
\* number of header sections the splitter cuts it into. kC holds no *.md.
FileSystem(path) ==
    IF path = <<korpora_path, "kA">> THEN << 3, 1 >>
    ELSE IF path = <<korpora_path, "kB">> THEN << 1 >>
    ELSE << >>

Unbound == "<unbound>"     \* a local name that was never assigned
NoValue == "<unset>"       \* a widget the user has not touched yet
None == [kind |-> "None"]

RECURSIVE SumSeq(_)
SumSeq(q) == IF q = << >> THEN 0 ELSE Head(q) + SumSeq(Tail(q))

Min(a, b) == IF a < b THEN a ELSE b

\* ------------------------------------------------------- pure functions
\* extract_model_names: the "name" of every descriptor, in listing order.
extract_model_names(models_info) ==
    [i \in 1..Len(models_info) |-> models_info[i].name]

\* load_documents: one Document per matching file of the directory.
load_documents(path) == FileSystem(path)

\* split_documents: the sections of every document, concatenated; a chunk
\* is represented by the corpus path it came from, so only the count and the
\* origin are kept.
split_documents(docs) == SumSeq(docs)

\* st.selectbox(options, key=...): the stored widget value, the first option
\* when the widget was never touched.
selectbox(options, value) ==
    IF value = NoValue THEN options[1] ELSE value

\* The retriever process_question builds: plain similarity search, k = 3,
\* the MultiQueryRetriever left commented out.
Retriever_mq == [search_type |-> "similarity", k |-> 3, multi_query |-> TRUE]
Retriever == [search_type |-> "similarity", k |-> 3, multi_query |-> FALSE]

\* The keys delete_vector_db pops from the session state.
DeletePops_all == {"pdf_pages", "file_upload", "vector_db", "messages"}
DeletePops_keep == {"pdf_pages", "file_upload"}
DeletePops == {"pdf_pages", "file_upload", "vector_db"}

\* The collection name main() passes to Chroma.from_documents.
CollectionName(s) == "myRAG"

CollectionNames == {"myRAG"}

VARIABLES
    active,            \* the browser sessions that exist
    env,               \* what ollama.list() and os.listdir() may return
    keys,              \* keys[s]: the keys present in st.session_state
    messages,          \* st.session_state["messages"]
    vector_db,         \* st.session_state["vector_db"]
    widgets,           \* model_select / korpus_select / embedding_select
    store,             \* the process-wide Chroma client: collections by name
    pc,                \* where each session's script run stands
    loc,               \* the locals of each session's current script run
    banners,           \* what the run showed: warnings, errors, exceptions
    turn,              \* history: the external calls of the current run
    hist               \* history: builds, destroys, runs

vars == << active, env, keys, messages, vector_db, widgets, store, pc, loc,
           banners, turn, hist >>

Range(f) == { f[i] : i \in DOMAIN f }

\* The corpus directories that hold documents, and the rows a collection
\* can hold: a row remembers the corpus path it was cut from and the session
\* whose build inserted it.
Paths == { <<korpora_path, k>> : k \in {"kA", "kB"} }
RowKinds == Paths \X Sessions
NoRows == [r \in RowKinds |-> 0]

RECURSIVE SumOver(_, _)
SumOver(f, S) ==
    IF S = {} THEN 0
    ELSE LET x == CHOOSE y \in S : TRUE IN f[x] + SumOver(f, S \ {x})

Size(rows) == SumOver(rows, RowKinds)

EmptyCollection == [exists |-> FALSE, rows |-> NoRows]

\* ------------------------------------------------ st.session_state writes
\* Line 307: the user message is appended before anything is checked.
AppendUser_skip(msgs, prompt) == msgs
AppendUser(msgs, prompt) ==
    Append(msgs, [role |-> "user", content |-> prompt])

\* Lines 323-326: the assistant message.
AppendAssistant(msgs, response) ==
    Append(msgs, [role |-> "assistant", content |-> response])

\* Lines 328-330: the catch-all handler shows and logs the exception; the
\* transcript is not touched.
ExceptHandler_apology(msgs) ==
    Append(msgs, [role |-> "assistant", content |-> "error"])
ExceptHandler(msgs) == msgs

\* Line 271: the assignment to session_state["vector_db"] happens only when
\* Chroma.from_documents returns; when it raises, the old value stays.
FailedBuildHandle_early(old, new) == new
FailedBuildHandle(old, new) == old

\* Line 259 (and again 267): the build guard.
NeedsBuild_always(s) == TRUE
NeedsBuild_stale(s) ==
    \/ vector_db[s] = None
    \/ /\ loc[s].selected_korpus # Unbound
       /\ loc[s].selected_embedding_model # Unbound
       /\ hist[s].lastBuild #
            [korpus |-> <<korpora_path, loc[s].selected_korpus>>,
             embedding |-> loc[s].selected_embedding_model]
NeedsBuild(s) == vector_db[s] = None

\* ------------------------------------------------------------- Init
NoLocals ==
    [trigger |-> "none", prompt |-> Unbound,
     available_models |-> << >>, korpora_list |-> << >>,
     selected_model |-> Unbound, selected_korpus |-> Unbound,
     selected_embedding_model |-> Unbound,
     korpus_dir |-> << >>, docs |-> << >>, chunks |-> 0,
     response |-> Unbound]

NoWidgets ==
    [model_select |-> NoValue, korpus_select |-> NoValue,
     embedding_select |-> NoValue]

NoTurn ==
    [calls |-> << >>, outcome |-> "none", msgs0 |-> << >>, vdb0 |-> None,
     vdb1 |-> None, prompt |-> Unbound, listed |-> [models |-> 0, korpora |-> 0]]

NoHist ==
    [started |-> FALSE, builds |-> 0, reloaded |-> FALSE,
     buildFailed |-> FALSE,
     lastBuild |-> [korpus |-> << >>, embedding |-> Unbound]]

InitWith(S, models, korpora) ==
    /\ active = S
    /\ env = [models |-> models, korpora |-> korpora]
    /\ keys = [s \in Sessions |-> {}]
    /\ messages = [s \in Sessions |-> << >>]
    /\ vector_db = [s \in Sessions |-> None]
    /\ widgets = [s \in Sessions |-> NoWidgets]
    /\ store = [n \in CollectionNames |-> EmptyCollection]
    /\ pc = [s \in Sessions |-> "idle"]
    /\ loc = [s \in Sessions |-> NoLocals]
    /\ banners = [s \in Sessions |-> {}]
    /\ turn = [s \in Sessions |-> NoTurn]
    /\ hist = [s \in Sessions |-> NoHist]

\* One browser session, as section 5 of the specification assumes.
Init == InitWith({"s1"}, ModelListings, KorporaListings)

\* Two browser sessions served by the same process, with models installed
\* and the corpus directories listed with the one-section corpus first.
InitMulti ==
    InitWith(Sessions, {<< [name |-> "m1"], [name |-> "m2"] >>},
             {<< "kB", "kA", "kC" >>})

\* ------------------------------------------------------ a script run
\* Lines 212-252 of main(): the environment is read (os.listdir,
\* ollama.list), the session state is initialised on its first use, and the
\* three select boxes are rendered, each only when it has options. `trig` is
\* the interaction that caused the run and `val` its value.
RunScript(s, trig, val, models_info, korpora_list) ==
    LET available_models == extract_model_names(models_info)
        w == CASE trig = "model_select" ->
                    [widgets[s] EXCEPT !.model_select = val]
               [] trig = "korpus_select" ->
                    [widgets[s] EXCEPT !.korpus_select = val]
               [] trig = "embedding_select" ->
                    [widgets[s] EXCEPT !.embedding_select = val]
               [] OTHER -> widgets[s]
    IN
    /\ s \in active
    /\ widgets' = [widgets EXCEPT ![s] = w]
    /\ keys' = [keys EXCEPT ![s] = @ \cup {"messages", "vector_db", "use_sample"}]
    /\ messages' = [messages EXCEPT
                      ![s] = IF "messages" \in keys[s] THEN @ ELSE << >>]
    /\ vector_db' = [vector_db EXCEPT
                      ![s] = IF "vector_db" \in keys[s] THEN @ ELSE None]
    /\ loc' = [loc EXCEPT ![s] =
                 [NoLocals EXCEPT
                    !.trigger = trig,
                    !.prompt = IF trig = "chat_input" THEN val ELSE Unbound,
                    !.available_models = available_models,
                    !.korpora_list = korpora_list,
                    !.selected_model =
                        IF available_models # << >>
                        THEN selectbox(available_models, w.model_select)
                        ELSE Unbound,
                    !.selected_korpus =
                        IF korpora_list # << >>
                        THEN selectbox(korpora_list, w.korpus_select)
                        ELSE Unbound,
                    !.selected_embedding_model =
                        IF available_models # << >>
                        THEN selectbox(available_models, w.embedding_select)
                        ELSE Unbound]]
    /\ banners' = [banners EXCEPT ![s] = {}]
    /\ turn' = [turn EXCEPT ![s] =
                  [NoTurn EXCEPT
                     !.msgs0 = IF "messages" \in keys[s]
                               THEN messages[s] ELSE << >>,
                     !.vdb0 = IF "vector_db" \in keys[s]
                              THEN vector_db[s] ELSE None,
                     !.prompt = IF trig = "chat_input" THEN val ELSE Unbound,
                     !.listed = [models |-> Len(available_models),
                                 korpora |-> Len(korpora_list)]]]
    /\ hist' = [hist EXCEPT ![s].started = TRUE]
    /\ pc' = [pc EXCEPT ![s] = "build_check"]
    /\ UNCHANGED << active, env, store >>

\* The first run of a session: the page is opened.
FirstLoad(s) ==
    /\ pc[s] = "idle"
    /\ ~hist[s].started
    /\ \E mi \in env.models, kl \in env.korpora :
          RunScript(s, "open", NoValue, mi, kl)

\* The user picks another chat model, corpus or embedding model; the boxes
\* offer what the run that rendered them listed.
SelectWidget(s) ==
    /\ pc[s] = "idle"
    /\ hist[s].started
    /\ \E mi \in env.models, kl \in env.korpora :
          \/ \E v \in Range(extract_model_names(mi)) :
                \/ RunScript(s, "model_select", v, mi, kl)
                \/ RunScript(s, "embedding_select", v, mi, kl)
          \/ \E v \in Range(kl) : RunScript(s, "korpus_select", v, mi, kl)

\* The user clicks "Reload data".
ClickReload(s) ==
    /\ pc[s] = "idle"
    /\ hist[s].started
    /\ \E mi \in env.models, kl \in env.korpora :
          RunScript(s, "delete_button", NoValue, mi, kl)

\* The user submits a question in the chat input.
SubmitPrompt(s) ==
    /\ pc[s] = "idle"
    /\ hist[s].started
    /\ Len(messages[s]) + 2 <= MaxMsgs
    /\ \E q \in Questions, mi \in env.models, kl \in env.korpora :
          RunScript(s, "chat_input", q, mi, kl)

\* st.rerun() (line 188): the script starts over at once, no widget fired.
Rerun(s) ==
    /\ pc[s] = "rerun"
    /\ \E mi \in env.models, kl \in env.korpora :
          RunScript(s, "rerun", NoValue, mi, kl)

\* The script run returns: its locals are gone.
EndRun(s) ==
    /\ pc' = [pc EXCEPT ![s] = "idle"]
    /\ loc' = [loc EXCEPT ![s] = NoLocals]

\* An exception nobody catches ends the script run; Streamlit shows it and
\* keeps the session state.
Uncaught(s) ==
    /\ banners' = [banners EXCEPT ![s] = @ \cup {"exception"}]
    /\ EndRun(s)

\* ------------------------------------------------------ the index build
\* Lines 259-262 and 276-277: with no index, the corpus directory is loaded.
\* selected_korpus is unbound when os.listdir returned nothing (line 260
\* then raises); line 260 rebinds it to the directory path, kept here as
\* korpus_dir.
LoadCorpus(s) ==
    /\ pc[s] = "build_check"
    /\ IF ~NeedsBuild(s)
         THEN /\ pc' = [pc EXCEPT ![s] = "button"]
              /\ UNCHANGED << loc, banners >>
       ELSE IF loc[s].selected_korpus = Unbound
         THEN Uncaught(s)
       ELSE LET path == << korpora_path, loc[s].selected_korpus >>
                docs == load_documents(path)
            IN /\ loc' = [loc EXCEPT ![s].korpus_dir = path, ![s].docs = docs]
               /\ IF docs # << >>
                    THEN /\ pc' = [pc EXCEPT ![s] = "build"]
                         /\ UNCHANGED banners
                    ELSE /\ pc' = [pc EXCEPT ![s] = "button"]
                         /\ banners' = [banners EXCEPT
                                          ![s] = @ \cup {"no_website_data"}]
    /\ UNCHANGED << active, env, keys, messages, vector_db, widgets, store,
                    turn, hist >>

\* Lines 267-275, first half: the guard is tested again, the documents are split, the embedding client
\* is made from selected_embedding_model (unbound when no model is
\* installed) and Chroma get-or-creates the named collection.
BuildCreate(s) ==
    /\ pc[s] = "build"
    /\ LET chunks == split_documents(loc[s].docs)
           name == CollectionName(s)
       IN IF ~NeedsBuild(s)
            THEN /\ pc' = [pc EXCEPT ![s] = "button"]
                 /\ UNCHANGED << loc, store, banners >>
          ELSE IF loc[s].selected_embedding_model = Unbound
            THEN /\ Uncaught(s)
                 /\ UNCHANGED store
            ELSE /\ Size(store[name].rows) + chunks <= MaxRows
                 /\ loc' = [loc EXCEPT ![s].chunks = chunks]
                 /\ store' = [store EXCEPT ![name].exists = TRUE]
                 /\ pc' = [pc EXCEPT ![s] = "embed"]
                 /\ UNCHANGED banners
    /\ UNCHANGED << active, env, keys, messages, vector_db, widgets, turn, hist >>

\* The handle Chroma.from_documents returns: the collection's name and the
\* embedding client queries will be embedded with.
Handle(s) ==
    [kind |-> "Chroma", name |-> CollectionName(s),
     embedding |-> loc[s].selected_embedding_model]

\* Lines 271-275, second half: every chunk is embedded and inserted, and the
\* handle is stored in the session state.
BuildInsertOk(s) ==
    /\ pc[s] = "embed"
    /\ LET name == CollectionName(s)
           kind == << loc[s].korpus_dir, s >>
           rows == [store[name].rows EXCEPT ![kind] = @ + loc[s].chunks]
       IN /\ store[name].exists
          /\ store' = [store EXCEPT ![name].rows = rows]
          /\ vector_db' = [vector_db EXCEPT ![s] = Handle(s)]
          /\ hist' = [hist EXCEPT
                        ![s].builds = @ + 1,
                        ![s].reloaded = FALSE,
                        ![s].buildFailed = FALSE,
                        ![s].lastBuild =
                            [korpus |-> loc[s].korpus_dir,
                             embedding |-> loc[s].selected_embedding_model]]
    /\ pc' = [pc EXCEPT ![s] = "button"]
    /\ UNCHANGED << active, env, keys, messages, widgets, loc, banners, turn >>

\* Lines 271-275 raising: an embedding call fails after j chunks went in (or
\* the collection was deleted under the build); from_documents raises, the
\* assignment does not happen and the script run ends.
BuildInsertFail(s) ==
    /\ pc[s] = "embed"
    /\ LET name == CollectionName(s)
           kind == << loc[s].korpus_dir, s >>
       IN /\ \E j \in 0..(loc[s].chunks - 1) :
                store' = [store EXCEPT
                            ![name].rows =
                                IF store[name].exists
                                THEN [@ EXCEPT ![kind] = @ + j]
                                ELSE @]
          /\ vector_db' = [vector_db EXCEPT
                             ![s] = FailedBuildHandle(@, Handle(s))]
    /\ hist' = [hist EXCEPT ![s].buildFailed = TRUE]
    /\ Uncaught(s)
    /\ UNCHANGED << active, env, keys, messages, widgets, turn >>

\* ------------------------------------------------------ the reload button
\* Lines 284-291 with the button not clicked.
ButtonIdle(s) ==
    /\ pc[s] = "button"
    /\ loc[s].trigger # "delete_button"
    /\ pc' = [pc EXCEPT ![s] = "chat"]
    /\ UNCHANGED << active, env, keys, messages, vector_db, widgets, store, loc,
                    banners, turn, hist >>

\* delete_vector_db (lines 173-188) on a handle: the collection is deleted,
\* the keys are popped and the script is rerun. Deleting a collection that
\* is already gone either raises in the client, which ends the run before
\* the pops, or passes.
DeleteVectorDb(s) ==
    /\ pc[s] = "button"
    /\ loc[s].trigger = "delete_button"
    /\ vector_db[s] # None
    /\ LET name == vector_db[s].name
       IN \/ /\ store' = [store EXCEPT ![name] = EmptyCollection]
             /\ keys' = [keys EXCEPT ![s] = @ \ DeletePops]
             /\ vector_db' = [vector_db EXCEPT
                                ![s] = IF "vector_db" \in DeletePops
                                       THEN None ELSE @]
             /\ messages' = [messages EXCEPT
                                ![s] = IF "messages" \in DeletePops
                                       THEN << >> ELSE @]
             /\ banners' = [banners EXCEPT ![s] = @ \cup {"deleted"}]
             /\ hist' = [hist EXCEPT ![s].builds = 0, ![s].reloaded = TRUE]
             /\ pc' = [pc EXCEPT ![s] = "rerun"]
             /\ loc' = [loc EXCEPT ![s] = NoLocals]
          \/ /\ ~store[name].exists
             /\ Uncaught(s)
             /\ UNCHANGED << store, keys, vector_db, messages, hist >>
    /\ UNCHANGED << active, env, widgets, turn >>

\* delete_vector_db (lines 189-191) on None: an error banner, and the script
\* goes on.
DeleteNothing(s) ==
    /\ pc[s] = "button"
    /\ loc[s].trigger = "delete_button"
    /\ vector_db[s] = None
    /\ banners' = [banners EXCEPT ![s] = @ \cup {"no_vector_db_to_delete"}]
    /\ pc' = [pc EXCEPT ![s] = "chat"]
    /\ UNCHANGED << active, env, keys, messages, vector_db, widgets, store, loc,
                    turn, hist >>

\* ------------------------------------------------------ the chat turn
\* Lines 331-333: no prompt was submitted; the run ends.
NoPrompt(s) ==
    /\ pc[s] = "chat"
    /\ loc[s].trigger # "chat_input"
    /\ banners' = [banners EXCEPT
                     ![s] = IF vector_db[s] = None
                            THEN @ \cup {"upload_to_begin"} ELSE @]
    /\ EndRun(s)
    /\ UNCHANGED << active, env, keys, messages, vector_db, widgets, store,
                    turn, hist >>

\* Lines 304-309: a prompt was submitted; the user message goes into the
\* transcript first.
ChatInput(s) ==
    /\ pc[s] = "chat"
    /\ loc[s].trigger = "chat_input"
    /\ messages' = [messages EXCEPT ![s] = AppendUser(@, loc[s].prompt)]
    /\ turn' = [turn EXCEPT ![s].vdb1 = vector_db[s]]
    /\ pc' = [pc EXCEPT ![s] = "answer"]
    /\ UNCHANGED << active, env, keys, vector_db, widgets, store, loc, banners,
                    hist >>

\* The except clause of lines 328-330 taking over the turn.
Caught(s) ==
    /\ messages' = [messages EXCEPT ![s] = ExceptHandler(@)]
    /\ banners' = [banners EXCEPT ![s] = @ \cup {"error"}]
    /\ turn' = [turn EXCEPT ![s].outcome = "failed"]
    /\ EndRun(s)

\* Lines 314-320: with an index, process_question is called (selected_model
\* is unbound when no model is installed, which raises into the except
\* clause); with none, a warning is shown.
Answer(s) ==
    /\ pc[s] = "answer"
    /\ IF vector_db[s] # None
         THEN IF loc[s].selected_model = Unbound
                THEN Caught(s)
                ELSE /\ pc' = [pc EXCEPT ![s] = "retrieve"]
                     /\ UNCHANGED << messages, banners, turn, loc >>
         ELSE /\ banners' = [banners EXCEPT
                               ![s] = @ \cup {"please_upload_first"}]
              /\ turn' = [turn EXCEPT ![s].outcome = "rejected"]
              /\ pc' = [pc EXCEPT ![s] = "append"]
              /\ UNCHANGED << messages, loc >>
    /\ UNCHANGED << active, env, keys, vector_db, widgets, store, hist >>

\* One call to an external service, as the turn's history records it.
Call(op, k, got, model, name) ==
    [op |-> op, k |-> k, got |-> got, model |-> model, name |-> name]

\* chain.invoke, the retriever (lines 132-134, 161): the question is embedded
\* with the handle's embedding client and the collection is asked for the k
\* nearest rows. With the multi-query retriever the chat model would first
\* be asked for paraphrases and each of them would be searched as well.
RetrieveCalls(s) ==
    LET h == vector_db[s]
        q == Call("query", Retriever.k,
                  Min(Retriever.k, Size(store[h.name].rows)),
                  h.embedding, h.name)
    IN IF Retriever.multi_query
         THEN << Call("generate", 0, 0, loc[s].selected_model, h.name),
                 q, q, q >>
         ELSE << q >>

RetrieveOk(s) ==
    /\ pc[s] = "retrieve"
    /\ store[vector_db[s].name].exists
    /\ turn' = [turn EXCEPT ![s].calls = @ \o RetrieveCalls(s)]
    /\ pc' = [pc EXCEPT ![s] = "generate"]
    /\ UNCHANGED << active, env, keys, messages, vector_db, widgets, store, loc,
                    banners, hist >>

\* The embedding service or the store fails, or the collection is gone: the
\* exception reaches the except clause.
RetrieveFail(s) ==
    /\ pc[s] = "retrieve"
    /\ Caught(s)
    /\ UNCHANGED << active, env, keys, vector_db, widgets, store, hist >>

\* chain.invoke, the chat model (lines 103, 163-168): one generation call
\* with the selected chat model; the text comes back whole.
GenerateOk(s) ==
    /\ pc[s] = "generate"
    /\ \E r \in Responses : loc' = [loc EXCEPT ![s].response = r]
    /\ turn' = [turn EXCEPT
                  ![s].calls = Append(@, Call("generate", 0, 0,
                                              loc[s].selected_model,
                                              vector_db[s].name))]
    /\ pc' = [pc EXCEPT ![s] = "append"]
    /\ UNCHANGED << active, env, keys, messages, vector_db, widgets, store,
                    banners, hist >>

GenerateFail(s) ==
    /\ pc[s] = "generate"
    /\ turn' = [turn EXCEPT
                  ![s].calls = Append(@, Call("generate", 0, 0,
                                              loc[s].selected_model,
                                              vector_db[s].name)),
                  ![s].outcome = "failed"]
    /\ messages' = [messages EXCEPT ![s] = ExceptHandler(@)]
    /\ banners' = [banners EXCEPT ![s] = @ \cup {"error"}]
    /\ EndRun(s)
    /\ UNCHANGED << active, env, keys, vector_db, widgets, store, hist >>

\* Lines 322-326: with an index, the response is appended to the transcript.
AppendResponse(s) ==
    /\ pc[s] = "append"
    /\ IF vector_db[s] # None
         THEN /\ messages' = [messages EXCEPT
                                ![s] = AppendAssistant(@, loc[s].response)]
              /\ turn' = [turn EXCEPT ![s].outcome = "answered"]
         ELSE UNCHANGED << messages, turn >>
    /\ EndRun(s)
    /\ UNCHANGED << active, env, keys, vector_db, widgets, store, banners,
                    hist >>

\* ------------------------------------------------------ specifications
Next ==
    \E s \in Sessions :
        \/ FirstLoad(s)
        \/ SelectWidget(s)
        \/ ClickReload(s)
        \/ SubmitPrompt(s)
        \/ Rerun(s)
        \/ LoadCorpus(s)
        \/ BuildCreate(s)
        \/ BuildInsertOk(s)
        \/ BuildInsertFail(s)
        \/ ButtonIdle(s)
        \/ DeleteVectorDb(s)
        \/ DeleteNothing(s)
        \/ NoPrompt(s)
        \/ ChatInput(s)
        \/ Answer(s)
        \/ RetrieveOk(s)
        \/ RetrieveFail(s)
        \/ GenerateOk(s)
        \/ GenerateFail(s)
        \/ AppendResponse(s)

Spec == Init /\ [][Next]_vars

\* Two sessions that open the page, ask questions and reload, and leave the
\* select boxes alone (so a run without an index always finds documents).
NextMulti ==
    \E s \in Sessions :
        \/ FirstLoad(s)
        \/ ClickReload(s)
        \/ SubmitPrompt(s)
        \/ Rerun(s)
        \/ LoadCorpus(s)
        \/ BuildCreate(s)
        \/ BuildInsertOk(s)
        \/ BuildInsertFail(s)
        \/ ButtonIdle(s)
        \/ DeleteVectorDb(s)
        \/ NoPrompt(s)
        \/ ChatInput(s)
        \/ Answer(s)
        \/ RetrieveOk(s)
        \/ RetrieveFail(s)
        \/ GenerateOk(s)
        \/ GenerateFail(s)
        \/ AppendResponse(s)

SpecMulti == InitMulti /\ [][NextMulti]_vars

\* ------------------------------------------------------ helpers of the claims
UserMsg(q) == [role |-> "user", content |-> q]

Ops(calls, op) == { i \in DOMAIN calls : calls[i].op = op }

ReloadStep(s) == pc[s] = "button" /\ loc[s].trigger = "delete_button"

C3_FailedTurn ==
    \A s \in active :
        turn[s].outcome = "failed" =>
            /\ turn[s].vdb1 # None
            /\ messages[s] = Append(turn[s].msgs0, UserMsg(turn[s].prompt))
            /\ vector_db[s] = turn[s].vdb1
            /\ "error" \in banners[s]
            /\ Cardinality(Ops(turn[s].calls, "query")) <= 1
            /\ Cardinality(Ops(turn[s].calls, "generate")) <= 1

C3_Witness ==
    \E s \in active :
        /\ turn[s].outcome = "failed"
        /\ Len(turn[s].calls) = 2
        /\ turn[s].msgs0 # << >>

C5_NoAnswerFromDestroyedIndex ==
    \A s \in active :
        /\ hist[s].reloaded =>
              /\ vector_db[s] = None
              /\ pc[s] \notin {"retrieve", "generate"}
              /\ turn[s].calls = << >>
              /\ turn[s].outcome \in {"none", "rejected"}
        /\ pc[s] \in {"retrieve", "generate"} =>
              /\ vector_db[s] # None
              /\ store[vector_db[s].name].exists

C5_Witness ==
    \E s \in active :
        /\ hist[s].reloaded
        /\ turn[s].outcome = "rejected"
        /\ pc[s] = "idle"

\* ------------------------------------------------------ C6
\* C6: an answered question took exactly one similarity query with k = 3,
\* returning at most 3 rows, followed by exactly one chat-generation call;
\* while a turn is in progress the calls issued so far are a prefix of that
\* sequence.
C6_OneQueryThenOneGeneration ==
    \A s \in active :
        LET calls == turn[s].calls IN
        /\ Len(calls) <= 2
        /\ Len(calls) >= 1 =>
              /\ calls[1].op = "query"
              /\ calls[1].k = 3
              /\ calls[1].got <= 3
        /\ Len(calls) = 2 => calls[2].op = "generate"
        /\ turn[s].outcome = "answered" => Len(calls) = 2
        /\ pc[s] = "generate" => Len(calls) = 1

C6_Witness ==
    \E s \in active :
        /\ turn[s].outcome = "answered"
        /\ turn[s].calls[1].got = 3
        /\ Size(store[vector_db[s].name].rows) > 3

C8_NoModelsIsNoError ==
    \A s \in active :
        (turn[s].listed.models = 0 /\ turn[s].listed.korpora > 0) =>
            banners[s] \cap {"exception", "error"} = {}

\* ------------------------------------------------------ C9
\* C9 as stated: the collection behind a session's live index exists and
\* holds only rows that the session's own builds inserted.
C9_SessionsOwnTheirCollection ==
    \A s \in active :
        vector_db[s] # None =>
            /\ store[vector_db[s].name].exists
            /\ \A r \in RowKinds :
                  r[2] # s => store[vector_db[s].name].rows[r] = 0

\* ------------------------------------------------------ C10
\* What C10 asks of one step.
C10_Frame ==
    \A s \in active :
        /\ (vector_db[s] # None /\ ~ReloadStep(s)) =>
              /\ vector_db'[s] = vector_db[s]
              /\ store' = store
        /\ \A i \in DOMAIN turn'[s].calls :
              LET c == turn'[s].calls[i] IN
              /\ c.op = "query" =>
                    c.model = hist'[s].lastBuild.embedding
              /\ c.op = "generate" =>
                    /\ turn'[s].listed.models > 0
                    /\ c.model = IF widgets'[s].model_select = NoValue
                                 THEN "m1" ELSE widgets'[s].model_select

\* C10: while a session has a live index, every step other than the reload
\* leaves the handle and the collection as they are, whatever corpus or
\* embedding model is selected; queries are embedded with the embedding
\* model of the last build, and the generation call uses the chat model
\* selected in the current run.
C10_SelectionDoesNotRebuild == [][C10_Frame]_vars

C10_Witness ==
    \E s \in active :
        /\ turn[s].outcome = "answered"
        /\ turn[s].vdb0 # None
        /\ hist[s].lastBuild.korpus = << korpora_path, "kA" >>
        /\ widgets[s].korpus_select = "kB"
        /\ widgets[s].embedding_select = "m2"
        /\ turn[s].calls[1].model = "m1"
        /\ turn[s].calls[2].model = "m2"

====
